---- MODULE Spec2Model ----
(***************************************************************************)
(* WFS.CopyFileRange of weed/mount/weedfs_file_copy_range.go: the FUSE     *)
(* copy_file_range handler, run by concurrent request threads over a fixed *)
(* table of open file handles.                                             *)
(***************************************************************************)
EXTENDS Integers, Sequences, FiniteSets, TLC

\* ------------------------------------------------------------------ bounds
WordBits == 12          \* width standing for the 64 bits of uint64 / int64
MaxOff == 4             \* largest OffIn / OffOut of a request
MaxLen == 3             \* largest Len of a request
FarOff == 600           \* an OffOut past the 512 bytes the content type is sniffed from

\* the concurrent request threads, one call each
Threads == {1, 2}

Min(a, b) == IF a < b THEN a ELSE b
Max(a, b) == IF a > b THEN a ELSE b

\* ------------------------------------------------------- machine integers
Word == 2^WordBits
\* uint64 arithmetic wraps
U64(x) == (x + Word) % Word
\* int64(x) of a uint64 x / uint64(x) of an int64 x
I64(x) == IF x >= Word \div 2 THEN x - Word ELSE x
\* uint32(x): the low half of the word
U32(x) == x % (2^(WordBits \div 2))

\* ---------------------------------------------------------- handle table
\* file handle ids the registry resolves; id 6 is open nowhere
Handles == 1..5
Ids == 1..6
NoHandle == 0
NoEntry == 0
Entries == 1..3

\* wfs.GetHandle: the handle of an id, or nil
GetHandle(id) == IF id \in Handles THEN id ELSE NoHandle

\* fh.fh
fh(h) == h

\* fh.inode: handles 1 and 2 are two opens of one file
inode(h) == CASE h = 1 -> 1 [] h = 2 -> 1 [] h = 3 -> 2 [] h = 4 -> 3 [] h = 5 -> 4

\* fh.entry: handles 1 and 2 share entry 1, handle 5 has lost its entry
entry(h) == CASE h \in {1, 2} -> 1 [] h = 3 -> 2 [] h = 4 -> 3 [] h = 5 -> NoEntry

\* entry.IsDirectory
IsDirectory(e) == e = 3

\* the committed chunks of an inode (the chunk store), as bytes; byte 0 is NUL
chunks(ino) == IF ino = 1 THEN <<1, 2, 3>> ELSE << >>

\* ------------------------------------------------------------------ state
VARIABLES
    thread,     \* per request thread: the locals of its CopyFileRange call
    handle,     \* per file handle: locks, dirtyPages, dirtyMetadata, contentType
    entries,    \* per entry: Attributes.FileSize and Content
    lockOrder   \* per handle: the threads in the order they took fh.entryLock as fhOut

vars == <<thread, handle, entries, lockOrder>>

\* request: fuse.CopyFileRangeIn
Requests ==
    [FhIn : Ids, FhOut : Ids, OffIn : 0..MaxOff, OffOut : 0..MaxOff \cup {FarOff},
     Len : 0..MaxLen, Flags : {0, 1}]

\* the requests of the concurrent threads: regular files, read at the head and
\* written at the head or at the end
ConcRequests ==
    [FhIn : 1..3, FhOut : 1..3, OffIn : {0}, OffOut : {0, MaxOff},
     Len : {1, 2}, Flags : {0}]

NoRequest == [FhIn |-> 0, FhOut |-> 0, OffIn |-> 0, OffOut |-> 0, Len |-> 0, Flags |-> 0]

\* dirty pages of a handle: a function from the buffered offsets to their bytes
NoPages == [o \in {} |-> 0]

InitPages(h) ==
    CASE h = 1 -> (1 :> 7)
      [] h = 2 -> (4 :> 8)
      [] h = 3 -> (0 :> 9)
      [] OTHER -> NoPages

InitFileSize(e) == CASE e = 1 -> 5 [] e = 2 -> 1 [] OTHER -> 0

InitThread ==
    [pc |-> "idle", req |-> NoRequest, fhOut |-> NoHandle, fhIn |-> NoHandle,
     data |-> << >>, totalRead |-> 0, fileSize |-> 0, defers |-> << >>,
     err |-> "nil", code |-> "NONE", written |-> 0,
     acquired |-> << >>, released |-> << >>]

InitHandle(h) ==
    [lock |-> 0, entryLock |-> 0, readLocks |-> {},
     dirtyPages |-> InitPages(h),
     writerPattern |-> [lastOffset |-> 0, lastLength |-> 0, sequential |-> FALSE],
     dirtyMetadata |-> FALSE, contentType |-> ""]

InitEntry(e) == [FileSize |-> InitFileSize(e), Content |-> "cached"]

Init ==
    /\ thread = [i \in Threads |-> InitThread]
    /\ handle = [h \in Handles |-> InitHandle(h)]
    /\ entries = [e \in Entries |-> InitEntry(e)]
    /\ lockOrder = [h \in Handles |-> << >>]

\* ------------------------------------------------- FileHandle primitives
\* a lock a thread takes: fh.Lock, fh.entryLock.Lock or fh.lockForRead
Mutex(kind, h) == [kind |-> kind, h |-> h, off |-> 0, len |-> 0]
ReadLock(h, off, len) == [kind |-> "read", h |-> h, off |-> off, len |-> len]

\* faulty variant: the locks do not exclude
NeverWaits(owner) == FALSE

\* fh.Lock() / fh.entryLock.Lock() block while another thread holds the mutex
MustWait(owner) == owner # 0

\* fh.readFromChunks(data, off): the committed bytes of [off, off+len), short at
\* the end of the committed data; bytes past it stay NUL
ChunkRead(h, off, len) ==
    LET c == chunks(inode(h))
    IN IF off >= Len(c) THEN 0 ELSE Min(len, Len(c) - off)

readFromChunks(h, off, len) ==
    LET c == chunks(inode(h))
        n == ChunkRead(h, off, len)
    IN [k \in 1..len |-> IF k <= n THEN c[off + k] ELSE 0]

\* the error of a chunk read that did not fail: io.EOF when it came short
ChunkErr(h, off, len) == IF ChunkRead(h, off, len) < len THEN "EOF" ELSE "nil"

\* fh.readFromDirtyPages(data, off): the dirty bytes of [off, off+len) laid over
\* data, and maxStop, the end of the highest dirty byte there (0 when none)
Covered(pages, off, len) == {o \in DOMAIN pages : off <= o /\ o < off + len}

readFromDirtyPages(pages, data, off) ==
    [k \in 1..Len(data) |->
        IF off + k - 1 \in DOMAIN pages THEN pages[off + k - 1] ELSE data[k]]

maxStop(pages, off, len) ==
    LET c == Covered(pages, off, len)
    IN IF c = {} THEN 0 ELSE 1 + CHOOSE o \in c : \A p \in c : p <= o

\* dirtyPages.AddPage(off, data, isSequential): the latest write wins
AddPage(pages, off, data, isSequential) ==
    [o \in DOMAIN pages \cup {off + k - 1 : k \in 1..Len(data)} |->
        IF off <= o /\ o < off + Len(data) THEN data[o - off + 1] ELSE pages[o]]

\* writerPattern.MonitorWriteAt(off, len): a write that continues the last one
\* is sequential, any other is random
MonitorWriteAt(wp, off, len) ==
    [lastOffset |-> off, lastLength |-> len,
     sequential |-> (off = wp.lastOffset + wp.lastLength)]

IsSequentialMode(wp) == wp.sequential

\* http.DetectContentType on data too short for any file signature: the bytes
\* 0x00..0x08 are binary, 0x09 (TAB) is text, and empty data is text
DetectContentType(d) ==
    IF \E k \in 1..Len(d) : d[k] <= 8
    THEN "application/octet-stream" ELSE "text/plain; charset=utf-8"

\* ---------------------------------------------------------- CopyFileRange
\* faulty variant: the flags are not looked at
FlagsIgnored(r) == FALSE

\* line 32: flags must equal 0
FlagsRejected(r) == r.Flags # 0

\* faulty variant: the source is locked even when it is the target
AlwaysTwoHandles(in, out) == TRUE

\* faulty variant: the source is never locked
NeverTwoHandles(in, out) == FALSE

\* line 56: source and target are two handles
TwoHandles(in, out) == fh(in) # fh(out)

\* lines 69-70
offInEnd(r) == U64(U64(r.OffIn + r.Len) - 1)
offOutEnd(r) == U64(U64(r.OffOut + r.Len) - 1)

\* faulty variant: aliasing is told by the handle, not by the inode
OverlappingSameHandle(in, out, r) ==
    /\ fh(in) = fh(out)
    /\ r.OffIn <= offOutEnd(r)
    /\ offInEnd(r) >= r.OffOut

\* line 72: an overlapping range of the same file
Overlapping(in, out, r) ==
    /\ inode(in) = inode(out)
    /\ r.OffIn <= offOutEnd(r)
    /\ offInEnd(r) >= r.OffOut

\* faulty variant: a failed chunk read is taken for a good one
ReadAlwaysSucceeded(err) == TRUE

\* lines 90, 94-97: the read errors that are no failure
ReadSucceeded(err) == err = "nil" \/ err = "EOF"

\* faulty variant: only the bytes of the chunks count
TotalReadChunksOnly(stop, offIn, chunkRead) == chunkRead

\* line 92: the bytes read, from the chunks or up to the last dirty byte
TotalRead(stop, offIn, chunkRead) == Max(stop - I64(offIn), chunkRead)

\* faulty variant: the size is set to the end of the copy
NewFileSizeNoMax(offOut, total, size) == U64(I64(offOut) + total)

\* line 110: the file grows to the end of the copy, and never shrinks
NewFileSize(offOut, total, size) == U64(Max(I64(offOut) + total, I64(size)))

\* faulty variant: the data goes where it came from
TargetOffsetIn(r) == I64(r.OffIn)

\* line 109: where the data goes in the target
TargetOffset(r) == I64(r.OffOut)

\* line 115: the copy touches the head of the file
SniffsContentType(written, offOut) == written > 0 /\ offOut <= 512

\* line 116: the bytes handed to the sniffer
SniffedBytes(data, total) == SubSeq(data, 1, Min(total, 512) - 1)

\* faulty variant: the unlocks run in the order they were deferred
FirstDeferred(ds) == 1

\* a defer statement of lines 48-61, 86 pushes an unlock; a return runs the last first
Defer(ds, l) == Append(ds, l)
NextDeferred(ds) == Len(ds)

\* a nil dereference panics: the deferred unlocks run and the process dies
Crashed == \E i \in Threads : thread[i].pc = "crashed"

Return(t, code, written) ==
    [t EXCEPT !.code = code, !.written = written,
              !.pc = IF t.defers = << >>
                     THEN (IF code = "PANIC" THEN "crashed" ELSE "done")
                     ELSE "unwind"]

\* lines 30-44: flags, then both handles resolved
Call(i, requests) ==
    /\ ~Crashed
    /\ thread[i].pc = "idle"
    /\ \E r \in requests :
         LET t == [thread[i] EXCEPT !.req = r]
             out == GetHandle(r.FhOut)
             in == GetHandle(r.FhIn)
         IN thread' = [thread EXCEPT ![i] =
              IF FlagsRejected(r) THEN Return(t, "EINVAL", 0)
              ELSE IF out = NoHandle THEN Return(t, "EBADF", 0)
              ELSE IF in = NoHandle THEN Return([t EXCEPT !.fhOut = out], "EBADF", 0)
              ELSE [t EXCEPT !.fhOut = out, !.fhIn = in, !.pc = "fhOut.Lock"]]
    /\ UNCHANGED <<handle, entries, lockOrder>>

\* lines 47-48: fhOut.Lock()
LockOut(i) ==
    LET t == thread[i]
        l == Mutex("handle", t.fhOut)
    IN /\ ~Crashed
       /\ t.pc = "fhOut.Lock"
       /\ ~MustWait(handle[t.fhOut].lock)
       /\ handle' = [handle EXCEPT ![t.fhOut].lock = i]
       /\ thread' = [thread EXCEPT ![i] =
            [t EXCEPT !.pc = "fhOut.entryLock", !.defers = Defer(@, l),
                      !.acquired = Append(@, l)]]
       /\ UNCHANGED <<entries, lockOrder>>

\* lines 49-56: fhOut.entryLock.Lock(), then the target's entry must exist
LockOutEntry(i) ==
    LET t == thread[i]
        l == Mutex("entry", t.fhOut)
        u == [t EXCEPT !.defers = Defer(@, l), !.acquired = Append(@, l)]
    IN /\ ~Crashed
       /\ t.pc = "fhOut.entryLock"
       /\ ~MustWait(handle[t.fhOut].entryLock)
       /\ handle' = [handle EXCEPT ![t.fhOut].entryLock = i]
       /\ lockOrder' = [lockOrder EXCEPT ![t.fhOut] = Append(@, i)]
       /\ thread' = [thread EXCEPT ![i] =
            IF entry(t.fhOut) = NoEntry THEN Return(u, "ENOENT", 0)
            ELSE IF TwoHandles(t.fhIn, t.fhOut) THEN [u EXCEPT !.pc = "fhIn.Lock"]
            ELSE [u EXCEPT !.pc = "validate"]]
       /\ UNCHANGED entries

\* lines 57-58: fhIn.Lock()
LockIn(i) ==
    LET t == thread[i]
        l == Mutex("handle", t.fhIn)
    IN /\ ~Crashed
       /\ t.pc = "fhIn.Lock"
       /\ ~MustWait(handle[t.fhIn].lock)
       /\ handle' = [handle EXCEPT ![t.fhIn].lock = i]
       /\ thread' = [thread EXCEPT ![i] =
            [t EXCEPT !.pc = "fhIn.entryLock", !.defers = Defer(@, l),
                      !.acquired = Append(@, l)]]
       /\ UNCHANGED <<entries, lockOrder>>

\* lines 59-60: fhIn.entryLock.Lock()
LockInEntry(i) ==
    LET t == thread[i]
        l == Mutex("entry", t.fhIn)
    IN /\ ~Crashed
       /\ t.pc = "fhIn.entryLock"
       /\ ~MustWait(handle[t.fhIn].entryLock)
       /\ handle' = [handle EXCEPT ![t.fhIn].entryLock = i]
       /\ thread' = [thread EXCEPT ![i] =
            [t EXCEPT !.pc = "validate", !.defers = Defer(@, l),
                      !.acquired = Append(@, l)]]
       /\ UNCHANGED <<entries, lockOrder>>

\* lines 63-74: directories and overlapping ranges of one file are refused;
\* fhIn.entry is dereferenced unchecked
Validate(i) ==
    LET t == thread[i]
    IN /\ ~Crashed
       /\ t.pc = "validate"
       /\ thread' = [thread EXCEPT ![i] =
            IF entry(t.fhIn) = NoEntry THEN Return(t, "PANIC", 0)
            ELSE IF IsDirectory(entry(t.fhIn)) \/ IsDirectory(entry(t.fhOut))
                 THEN Return(t, "EISDIR", 0)
            ELSE IF Overlapping(t.fhIn, t.fhOut, t.req) THEN Return(t, "EINVAL", 0)
            ELSE [t EXCEPT !.pc = "read"]]
       /\ UNCHANGED <<handle, entries, lockOrder>>

\* lines 84-104: the source range is read-locked and read, chunks first and the
\* dirty pages over them; the chunk store may fail
ReadSource(i) ==
    LET t == thread[i]
        r == t.req
        l == ReadLock(t.fhIn, r.OffIn, r.Len)
        u == [t EXCEPT !.defers = Defer(@, l), !.acquired = Append(@, l)]
        pages == handle[t.fhIn].dirtyPages
    IN /\ ~Crashed
       /\ t.pc = "read"
       /\ handle' = [handle EXCEPT ![t.fhIn].readLocks = @ \cup {[t |-> i, l |-> l]}]
       /\ \E failed \in BOOLEAN :
            LET err == IF failed THEN "EIO" ELSE ChunkErr(t.fhIn, r.OffIn, r.Len)
                n == ChunkRead(t.fhIn, r.OffIn, r.Len)
                data == readFromDirtyPages(
                            pages, readFromChunks(t.fhIn, r.OffIn, r.Len), r.OffIn)
                total == TotalRead(maxStop(pages, r.OffIn, r.Len), r.OffIn, n)
                v == [u EXCEPT !.data = data, !.totalRead = total, !.err = err]
            IN thread' = [thread EXCEPT ![i] =
                    IF ~ReadSucceeded(err) THEN Return([u EXCEPT !.err = err], "EIO", 0)
                    ELSE IF total = 0 THEN Return(v, "OK", 0)
                    ELSE [v EXCEPT !.pc = "write"]]
       /\ UNCHANGED <<entries, lockOrder>>

\* lines 106-110: the data goes into the target's dirty pages; the entry's
\* cached content is dropped and its size is loaded
WriteTarget(i) ==
    LET t == thread[i]
        r == t.req
        e == entry(t.fhOut)
        wp == MonitorWriteAt(handle[t.fhOut].writerPattern, I64(r.OffOut), I64(r.Len))
    IN /\ ~Crashed
       /\ t.pc = "write"
       /\ handle' = [handle EXCEPT
            ![t.fhOut].writerPattern = wp,
            ![t.fhOut].dirtyPages = AddPage(@, TargetOffset(r), t.data, IsSequentialMode(wp))]
       /\ entries' = [entries EXCEPT ![e].Content = "nil"]
       /\ thread' = [thread EXCEPT ![i] =
            [t EXCEPT !.fileSize = entries[e].FileSize, !.pc = "size"]]
       /\ UNCHANGED lockOrder

\* lines 110-119: the size is stored, the metadata is dirty, the content type
\* is sniffed again when the head of the file was written
UpdateSize(i) ==
    LET t == thread[i]
        r == t.req
        e == entry(t.fhOut)
        written == U32(t.totalRead)
    IN /\ ~Crashed
       /\ t.pc = "size"
       /\ entries' = [entries EXCEPT
            ![e].FileSize = NewFileSize(r.OffOut, t.totalRead, t.fileSize)]
       /\ handle' = [handle EXCEPT
            ![t.fhOut].dirtyMetadata = TRUE,
            ![t.fhOut].contentType =
                IF SniffsContentType(written, r.OffOut)
                THEN DetectContentType(SniffedBytes(t.data, t.totalRead)) ELSE @]
       /\ thread' = [thread EXCEPT ![i] = Return(t, "OK", written)]
       /\ UNCHANGED lockOrder

\* the deferred unlocks of lines 48, 50, 58, 60, 86 run on the way out
Unlock(hs, i, l) ==
    CASE l.kind = "handle" -> [hs EXCEPT ![l.h].lock = 0]
      [] l.kind = "entry" -> [hs EXCEPT ![l.h].entryLock = 0]
      [] l.kind = "read" -> [hs EXCEPT ![l.h].readLocks = @ \ {[t |-> i, l |-> l]}]

RunDeferred(i) ==
    LET t == thread[i]
        k == NextDeferred(t.defers)
        l == t.defers[k]
        rest == [j \in 1..(Len(t.defers) - 1) |->
                    IF j < k THEN t.defers[j] ELSE t.defers[j + 1]]
    IN /\ ~Crashed
       /\ t.pc = "unwind"
       /\ handle' = Unlock(handle, i, l)
       /\ thread' = [thread EXCEPT ![i] =
            [t EXCEPT !.defers = rest, !.released = Append(@, l),
                      !.pc = IF rest # << >> THEN "unwind"
                             ELSE IF t.code = "PANIC" THEN "crashed" ELSE "done"]]
       /\ UNCHANGED <<entries, lockOrder>>

Step(i) ==
    \/ LockOut(i)
    \/ LockOutEntry(i)
    \/ LockIn(i)
    \/ LockInEntry(i)
    \/ Validate(i)
    \/ ReadSource(i)
    \/ WriteTarget(i)
    \/ UpdateSize(i)
    \/ RunDeferred(i)

\* concurrent request threads, one call each
Next == \E i \in Threads : Call(i, ConcRequests) \/ Step(i)

Spec == Init /\ [][Next]_vars

\* one request thread, any request
NextSeq == Call(1, Requests) \/ Step(1)

SpecSeq == Init /\ [][NextSeq]_vars

\* ------------------------------------------------------------ properties
Done(i) == thread[i].pc = "done"

\* the lock a thread is about to take, and the thread holding it
Wanted(i) ==
    LET t == thread[i]
    IN CASE t.pc = "fhOut.Lock" -> handle[t.fhOut].lock
         [] t.pc = "fhOut.entryLock" -> handle[t.fhOut].entryLock
         [] t.pc = "fhIn.Lock" -> handle[t.fhIn].lock
         [] t.pc = "fhIn.entryLock" -> handle[t.fhIn].entryLock
         [] OTHER -> 0

WaitsFor(i, j) == i # j /\ Wanted(i) = j

\* the request passes every check before the overlap check of line 72
Regular(h) == h # NoHandle /\ entry(h) # NoEntry /\ ~IsDirectory(entry(h))
Valid(r) == r.Flags = 0 /\ Regular(GetHandle(r.FhIn)) /\ Regular(GetHandle(r.FhOut))

\* the closed intervals [OffIn, OffIn+Len-1] and [OffOut, OffOut+Len-1] meet
Intersect(r) ==
    /\ r.Len >= 1
    /\ r.OffIn <= r.OffOut + r.Len - 1
    /\ r.OffOut <= r.OffIn + r.Len - 1

\* what a later call sees of a handle and of its entry
Buffered(h) ==
    [dirtyPages |-> handle[h].dirtyPages, writerPattern |-> handle[h].writerPattern,
     dirtyMetadata |-> handle[h].dirtyMetadata, contentType |-> handle[h].contentType]
InitBuffered(h) ==
    [dirtyPages |-> InitPages(h), writerPattern |-> InitHandle(h).writerPattern,
     dirtyMetadata |-> FALSE, contentType |-> ""]
Untouched == /\ \A h \in Handles : Buffered(h) = InitBuffered(h)
             /\ \A e \in Entries : entries[e] = InitEntry(e)

\* C1: concurrent CopyFileRange calls never block each other forever: in no
\* reachable state does every thread of some set wait for a lock that another
\* thread of the set holds.
C1_DeadlockFree ==
    ~ \E S \in SUBSET Threads :
        /\ S # {}
        /\ \A i \in S : \E j \in S : WaitsFor(i, j)

\* C3: a request on one inode (one handle, or two handles of the same file)
\* whose closed source and target intervals meet fails with EINVAL, returns 0
\* bytes and leaves every handle and entry as it was; on two inodes no request
\* that passes the earlier checks is answered EINVAL.
C3_OverlapRejected ==
    \A i \in Threads :
        LET t == thread[i]
            r == t.req
        IN Done(i) /\ Valid(r) =>
            /\ (inode(t.fhIn) = inode(t.fhOut) /\ Intersect(r) =>
                    t.code = "EINVAL" /\ t.written = 0 /\ Untouched)
            /\ (inode(t.fhIn) # inode(t.fhOut) => t.code # "EINVAL")

C3_Witness ==
    /\ Done(1)
    /\ thread[1].req.FhIn = 1 /\ thread[1].req.FhOut = 2
    /\ Intersect(thread[1].req)
    /\ thread[1].code = "EINVAL"

\* C4: a request with non-zero flags is answered EINVAL with 0 bytes at once:
\* no handle is resolved, no lock is taken, no handle or entry changes.
C4_FlagsRejected ==
    \A i \in Threads :
        LET t == thread[i]
        IN t.req.Flags # 0 =>
            /\ Done(i) /\ t.code = "EINVAL" /\ t.written = 0
            /\ t.fhOut = NoHandle /\ t.fhIn = NoHandle
            /\ t.acquired = << >>
            /\ handle = [h \in Handles |-> InitHandle(h)]
            /\ entries = [e \in Entries |-> InitEntry(e)]

C4_Witness ==
    /\ Done(1)
    /\ thread[1].req.Flags # 0
    /\ Valid([thread[1].req EXCEPT !.Flags = 0])
    /\ thread[1].code = "EINVAL"

\* the byte a read of a handle returns at offset o: the dirty page if there is
\* one, else the committed byte, else NUL
MergedView(pages, ino, o) ==
    IF o \in DOMAIN pages THEN pages[o]
    ELSE IF o < Len(chunks(ino)) THEN chunks(ino)[o + 1]
    ELSE 0

\* C2: after a successful copy of n bytes, reading [OffOut, OffOut+n) of the
\* target returns the bytes that reading [OffIn, OffIn+n) of the source
\* returned when the call was made, dirty pages shadowing committed bytes, and
\* for n > 0 the range lies inside the target's file size.
C2_ReadYourCopies ==
    \A i \in Threads :
        LET t == thread[i]
            r == t.req
        IN Done(i) /\ Valid(r) /\ t.code = "OK" =>
            /\ \A k \in 0..(t.written - 1) :
                 MergedView(handle[t.fhOut].dirtyPages, inode(t.fhOut), r.OffOut + k)
                   = MergedView(InitPages(t.fhIn), inode(t.fhIn), r.OffIn + k)
            /\ t.written > 0 =>
                 entries[entry(t.fhOut)].FileSize >= r.OffOut + t.written

C2_Witness ==
    /\ Done(1)
    /\ thread[1].req = [FhIn |-> 1, FhOut |-> 3, OffIn |-> 0, OffOut |-> 0,
                        Len |-> 3, Flags |-> 0]
    /\ thread[1].code = "OK" /\ thread[1].written = 3
    /\ [k \in 1..3 |-> MergedView(handle[3].dirtyPages, inode(3), k - 1)] = <<1, 7, 3>>
    /\ entries[entry(3)].FileSize = 3

\* the requested source range holds no committed and no dirty byte
SourceEmpty(r) ==
    \/ r.Len = 0
    \/ \A o \in r.OffIn..(r.OffIn + r.Len - 1) :
         /\ o \notin DOMAIN InitPages(GetHandle(r.FhIn))
         /\ o >= Len(chunks(inode(GetHandle(r.FhIn))))

\* C5: a valid request (flags 0, live handles, regular files, no overlap on one
\* inode, no read failure) whose source range is empty or whose Len is 0
\* succeeds with 0 bytes and leaves every handle and entry as it was.
C5_EmptySourceSucceeds ==
    \A i \in Threads :
        LET t == thread[i]
            r == t.req
        IN /\ Done(i) /\ Valid(r) /\ t.code # "EIO"
           /\ ~(inode(t.fhIn) = inode(t.fhOut) /\ Intersect(r))
           /\ SourceEmpty(r)
           => t.code = "OK" /\ t.written = 0 /\ Untouched

\* C6: a successful copy of n > 0 bytes leaves the target entry's size at
\* max(size before the call, OffOut + n), and no step ever lowers a size.
C6_SizeUpdate ==
    /\ [](\A i \in Threads :
            LET t == thread[i]
            IN Done(i) /\ t.code = "OK" /\ t.written > 0 =>
                entries[entry(t.fhOut)].FileSize
                  = Max(InitFileSize(entry(t.fhOut)), t.req.OffOut + t.written))
    /\ [][\A e \in Entries : entries'[e].FileSize >= entries[e].FileSize]_vars

C6_Witness ==
    /\ Done(1) /\ thread[1].code = "OK" /\ thread[1].written > 0
    /\ thread[1].req.FhOut = 3
    /\ entries[entry(3)].FileSize > InitFileSize(entry(3))

Reverse(s) == [k \in 1..Len(s) |-> s[Len(s) + 1 - k]]
Range(s) == {s[k] : k \in 1..Len(s)}

\* the locks the handle table shows a thread to hold
HeldLocks(i) ==
    {Mutex("handle", h) : h \in {x \in Handles : handle[x].lock = i}}
    \cup {Mutex("entry", h) : h \in {x \in Handles : handle[x].entryLock = i}}
    \cup UNION {{x.l : x \in {y \in handle[h].readLocks : y.t = i}} : h \in Handles}

\* C9: a thread holds exactly the locks it took and has not yet released; when
\* its call has returned it has released every lock it took, each once, in the
\* reverse of the order it took them, and holds none.
C9_LocksReleased ==
    \A i \in Threads :
        LET t == thread[i]
        IN /\ HeldLocks(i) = Range(t.acquired) \ Range(t.released)
           /\ Cardinality(Range(t.released)) = Len(t.released)
           /\ Done(i) => t.released = Reverse(t.acquired) /\ HeldLocks(i) = {}

C9_Witness ==
    /\ Done(1) /\ thread[1].code = "EIO"
    /\ Len(thread[1].acquired) = 5
    /\ thread[1].released = Reverse(thread[1].acquired)

Errors == {"EINVAL", "EBADF", "ENOENT", "EISDIR", "EIO"}

\* C10: a call that returns an error returns 0 bytes and leaves every handle's
\* dirty pages, writer pattern, dirty-metadata flag and content type and every
\* entry's size and content as they were; once the chunk read has failed the
\* call is on its way out with EIO and nothing has been written.
C10_AllOrNothing ==
    \A i \in Threads :
        LET t == thread[i]
        IN /\ Done(i) /\ t.code \in Errors => t.written = 0 /\ Untouched
           /\ t.err \notin {"nil", "EOF"} =>
                t.pc \in {"unwind", "done"} /\ t.code = "EIO" /\ Untouched

C10_Witness ==
    /\ Done(1) /\ thread[1].code = "EIO" /\ thread[1].written = 0
    /\ thread[1].req.FhIn = 1 /\ thread[1].req.FhOut = 3
    /\ thread[1].req.OffIn = 0 /\ thread[1].req.Len = 3

\* every thread has returned or made no call
Quiescent == \A i \in Threads : thread[i].pc \in {"idle", "done"}

\* the threads whose call wrote into handle h
Wrote(i) == Done(i) /\ thread[i].code = "OK" /\ thread[i].written > 0
Writers(h) == {i \in Threads : Wrote(i) /\ thread[i].fhOut = h}

\* the requested target ranges of two calls do not meet
Disjoint(i, j) ==
    \/ thread[i].req.OffOut + thread[i].req.Len <= thread[j].req.OffOut
    \/ thread[j].req.OffOut + thread[j].req.Len <= thread[i].req.OffOut

\* the pages after the buffers of the threads ws went into them one by one
RECURSIVE ApplyWrites(_, _)
ApplyWrites(pages, ws) ==
    IF ws = << >> THEN pages
    ELSE ApplyWrites(
            AddPage(pages, thread[Head(ws)].req.OffOut, thread[Head(ws)].data, TRUE),
            Tail(ws))

\* the threads of a set in the order of their ids
RECURSIVE Ascending(_)
Ascending(S) ==
    IF S = {} THEN << >>
    ELSE LET m == CHOOSE x \in S : \A y \in S : x <= y
         IN <<m>> \o Ascending(S \ {m})

\* the end of the furthest write of the threads W, or the size there was
RECURSIVE FurthestEnd(_, _)
FurthestEnd(W, size) ==
    IF W = {} THEN size
    ELSE LET i == CHOOSE x \in W : TRUE
         IN FurthestEnd(W \ {i}, Max(size, thread[i].req.OffOut + thread[i].written))

\* every call that wrote through the entry of h wrote through h itself
OnlyThrough(h) ==
    \A i \in Threads : Wrote(i) /\ entry(thread[i].fhOut) = entry(h) => thread[i].fhOut = h

\* C7: when the calls that wrote into one target handle asked for pairwise
\* disjoint target ranges, then whatever the interleaving the handle's dirty
\* pages are those of the writes laid down in any order, each range holds the
\* bytes its call read, and the entry's size is the furthest end written or
\* the size there was.
C7_DisjointCopies ==
    Quiescent =>
        \A h \in Handles :
            (\A i, j \in Writers(h) : i # j => Disjoint(i, j)) =>
                /\ handle[h].dirtyPages = ApplyWrites(InitPages(h), Ascending(Writers(h)))
                /\ \A i \in Writers(h) : \A k \in 1..thread[i].written :
                     handle[h].dirtyPages[thread[i].req.OffOut + k - 1] = thread[i].data[k]
                /\ OnlyThrough(h) /\ entry(h) # NoEntry =>
                     entries[entry(h)].FileSize
                       = FurthestEnd(Writers(h), InitFileSize(entry(h)))

C7_Witness ==
    /\ Quiescent
    /\ Writers(3) = {1, 2}
    /\ Disjoint(1, 2)
    /\ lockOrder[3] = <<2, 1>>
    /\ thread[1].req.OffOut = 0 /\ thread[2].req.OffOut = MaxOff
    /\ entries[entry(3)].FileSize = MaxOff + thread[2].written

\* the thread is between taking and releasing the entry lock of its target
HoldsTarget(i) ==
    /\ thread[i].fhOut # NoHandle
    /\ Mutex("entry", thread[i].fhOut)
         \in Range(thread[i].acquired) \ Range(thread[i].released)

\* the threads of a sequence that wrote
RECURSIVE WritersIn(_)
WritersIn(ws) ==
    IF ws = << >> THEN << >>
    ELSE (IF Wrote(Head(ws)) THEN <<Head(ws)>> ELSE << >>) \o WritersIn(Tail(ws))

\* C8: two calls on one target handle never hold its entry lock together, and
\* when all have returned the handle's dirty pages are those of the writes laid
\* down in the order the calls took the entry lock (the later call wins where
\* they overlap) and the entry's size is the furthest end written or the size
\* there was.
C8_Serialized ==
    /\ \A i, j \in Threads :
         i # j /\ thread[i].fhOut = thread[j].fhOut => ~(HoldsTarget(i) /\ HoldsTarget(j))
    /\ Quiescent =>
         \A h \in Handles :
            /\ handle[h].dirtyPages = ApplyWrites(InitPages(h), WritersIn(lockOrder[h]))
            /\ OnlyThrough(h) /\ entry(h) # NoEntry =>
                 entries[entry(h)].FileSize
                   = FurthestEnd(Writers(h), InitFileSize(entry(h)))

C8_Witness ==
    /\ Quiescent
    /\ Writers(3) = {1, 2}
    /\ lockOrder[3] = <<2, 1>>
    /\ thread[1].req.OffOut = 0 /\ thread[2].req.OffOut = 0
    /\ thread[1].req.Len = 2 /\ thread[2].req.Len = 2
    /\ thread[1].data[2] # thread[2].data[2]
    /\ handle[3].dirtyPages[1] = thread[1].data[2]

\* the checks in the order the specification lists them, and the kind of the
\* first that fails
FirstFailing(r, err) ==
    LET in == GetHandle(r.FhIn)
        out == GetHandle(r.FhOut)
    IN CASE r.Flags # 0 -> "EINVAL"
         [] r.Flags = 0 /\ out = NoHandle -> "EBADF"
         [] r.Flags = 0 /\ out # NoHandle /\ in = NoHandle -> "EBADF"
         [] OTHER ->
              IF entry(out) = NoEntry THEN "ENOENT"
              ELSE IF IsDirectory(entry(in)) \/ IsDirectory(entry(out)) THEN "EISDIR"
              ELSE IF inode(in) = inode(out) /\ Intersect(r) THEN "EINVAL"
              ELSE IF err \notin {"nil", "EOF"} THEN "EIO"
              ELSE "OK"

Finished(i) == thread[i].pc \in {"done", "crashed"}

\* C11: the result of a call is decided by the first failing check of the fixed
\* order flags, target handle, source handle, target entry, directories,
\* intersecting ranges of one inode, read error; a call that fails none of them
\* succeeds, and EBADF is returned before any lock is taken.
C11_FirstFailingCheck ==
    \A i \in Threads :
        Finished(i) =>
            /\ thread[i].code = FirstFailing(thread[i].req, thread[i].err)
            /\ thread[i].code = "EBADF" => thread[i].acquired = << >>

\* C12: after a successful call the target handle's content type has been
\* refreshed exactly when bytes were written and OffOut <= 512, and the value
\* is the sniff of the first min(bytesWritten, 512) bytes of the copied data.
C12_ContentTypeRefresh ==
    \A i \in Threads :
        (Done(i) /\ thread[i].code = "OK") =>
            LET t == thread[i]
            IN handle[t.fhOut].contentType =
                 IF t.written > 0 /\ t.req.OffOut <= 512
                 THEN DetectContentType(SubSeq(t.data, 1, Min(t.written, 512)))
                 ELSE InitHandle(t.fhOut).contentType

\* C13: an entry's size is at least the end of every range a finished call has
\* written to it, whatever handles the concurrent calls wrote through: no size
\* update is lost.
C13_SizeCoversWrites ==
    \A i \in Threads :
        Wrote(i) =>
            entries[entry(thread[i].fhOut)].FileSize
                >= thread[i].req.OffOut + thread[i].written

\* C14: a successful call inserts exactly the bytes it read into the target's
\* dirty pages: after a short read of n < Len bytes every offset outside
\* [OffOut, OffOut+n), the tail [OffOut+n, OffOut+Len) included, is buffered as
\* it was before the call.
C14_OnlyBytesRead ==
    \A i \in Threads :
        Wrote(i) =>
            LET t == thread[i]
                pages == handle[t.fhOut].dirtyPages
                before == InitPages(t.fhOut)
            IN \A o \in DOMAIN pages \cup DOMAIN before :
                 ~(t.req.OffOut <= o /\ o < t.req.OffOut + t.written) =>
                     /\ o \in DOMAIN pages
                     /\ o \in DOMAIN before
                     /\ pages[o] = before[o]

\* the mutexes a thread has taken, in the order it took them
MutexesTaken(i) == SelectSeq(thread[i].acquired, LAMBDA l : l.kind # "read")

\* the mutexes a call takes on its handles, target first
LocksOf(in, out) ==
    IF in = out
    THEN <<Mutex("handle", out), Mutex("entry", out)>>
    ELSE <<Mutex("handle", out), Mutex("entry", out),
           Mutex("handle", in), Mutex("entry", in)>>

Locked(i) == thread[i].pc \in {"validate", "read", "write", "size"}

\* C15: a call whose source and target are one handle takes the handle lock and
\* the entry lock once each and never waits for a lock it holds itself; a call
\* on two handles takes four locks in the order target handle, target entry,
\* source handle, source entry.
C15_LockOrder ==
    \A i \in Threads :
        LET t == thread[i]
            taken == MutexesTaken(i)
            order == LocksOf(t.fhIn, t.fhOut)
        IN /\ Wanted(i) # i
           /\ t.fhIn # NoHandle =>
                /\ Len(taken) <= Len(order)
                /\ \A k \in 1..Len(taken) : taken[k] = order[k]
                /\ Locked(i) => taken = order

C15_Witness ==
    /\ Wrote(1)
    /\ thread[1].fhIn = thread[1].fhOut
    /\ Len(MutexesTaken(1)) = 2
    /\ Locked(2)
    /\ thread[2].fhIn # thread[2].fhOut
    /\ Len(MutexesTaken(2)) = 4

\* the handles whose entry fields or dirty pages the next step of a thread
\* reads or writes: both entries at line 64, the source at lines 89-91, the
\* target at lines 107-111
Accessed(i) ==
    LET t == thread[i]
    IN CASE t.pc = "validate" -> {t.fhIn, t.fhOut}
         [] t.pc = "read" -> {t.fhIn}
         [] t.pc \in {"write", "size"} -> {t.fhOut}
         [] OTHER -> {}

\* the holder of a handle's entry lock is writing through that handle
Writing(h) ==
    \E i \in Threads :
        /\ handle[h].entryLock = i
        /\ thread[i].fhOut = h
        /\ thread[i].pc \in {"write", "size"}

\* C16: a thread about to read or write a handle's entry fields or dirty pages
\* holds that handle's entry lock, the source's for the directory check and the
\* merged read as well as the target's for the write; and no step changes a
\* handle's dirty pages or its entry unless the thread holding that handle's
\* entry lock takes it.
C16_EntryLockHeld ==
    /\ [](\A i \in Threads : \A h \in Accessed(i) : handle[h].entryLock = i)
    /\ [][\A h \in Handles :
            /\ handle'[h].dirtyPages # handle[h].dirtyPages => Writing(h)
            /\ (entry(h) # NoEntry /\ entries'[entry(h)] # entries[entry(h)])
                 => \E g \in Handles : entry(g) = entry(h) /\ Writing(g)]_vars

C16_Witness ==
    /\ thread[1].pc = "write"
    /\ thread[1].fhIn = 2 /\ thread[1].fhOut = 3
    /\ handle[2].entryLock = 1 /\ handle[3].entryLock = 1
    /\ thread[1].totalRead > 0
    /\ thread[2].pc = "fhOut.Lock" /\ thread[2].fhOut = 3

\* the call went as far as reading its source
HasRead(i) == \E k \in 1..Len(thread[i].acquired) : thread[i].acquired[k].kind = "read"

\* the source range of a request at call time: the committed bytes in it, the
\* dirty offsets in it, and the extent of the data in it
CommittedIn(h, r) ==
    Cardinality({o \in r.OffIn..(r.OffIn + r.Len - 1) : o < Len(chunks(inode(h)))})
DirtyIn(h, r) ==
    {o \in DOMAIN InitPages(h) : r.OffIn <= o /\ o < r.OffIn + r.Len}
Extent(h, r) ==
    LET d == DirtyIn(h, r)
        top == CHOOSE o \in d : \A p \in d : p <= o
    IN IF d = {} THEN CommittedIn(h, r) ELSE Max(CommittedIn(h, r), top + 1 - r.OffIn)

\* C17: a chunk read that ends in EOF is no failure: the dirty pages are laid
\* over what was read and the bytes transferred are the larger of the bytes
\* read from the chunks and the distance from OffIn to the end of the highest
\* dirty byte of the range, so dirty bytes past the committed data are copied;
\* on any other read error the call fails with EIO and copies nothing.
C17_ReadExtent ==
    \A i \in Threads :
        (Done(i) /\ HasRead(i)) =>
            LET t == thread[i]
                r == t.req
            IN /\ t.err \in {"nil", "EOF"} =>
                    /\ t.code = "OK"
                    /\ t.written = Extent(t.fhIn, r)
                    /\ t.written > 0 =>
                         \A o \in DirtyIn(t.fhIn, r) :
                            /\ r.OffOut + o - r.OffIn \in DOMAIN handle[t.fhOut].dirtyPages
                            /\ handle[t.fhOut].dirtyPages[r.OffOut + o - r.OffIn]
                                   = InitPages(t.fhIn)[o]
               /\ t.err \notin {"nil", "EOF"} =>
                    /\ t.code = "EIO"
                    /\ t.written = 0
                    /\ Untouched

C17_Witness ==
    /\ Done(1)
    /\ thread[1].err = "EOF"
    /\ thread[1].fhIn = 2 /\ thread[1].fhOut = 3
    /\ thread[1].req.OffIn = 2 /\ thread[1].req.OffOut = 0 /\ thread[1].req.Len = 3
    /\ CommittedIn(2, thread[1].req) = 1
    /\ thread[1].written = 3
    /\ handle[3].dirtyPages[2] = 8

\* ------------------------------------------------ the overlap test alone
\* offsets and lengths at both ends of the uint64 range
EdgeWords == {0, 1, 2, Word - 2, Word - 1}

\* requests on the two handles of inode 1
OverlapRequests ==
    [FhIn : {1, 2}, FhOut : {1, 2}, OffIn : EdgeWords, OffOut : EdgeWords,
     Len : EdgeWords, Flags : {0}]

\* a call that has resolved its handles and taken its locks (lines 37-61)
AtValidate(r) ==
    [InitThread EXCEPT !.pc = "validate", !.req = r,
                       !.fhIn = GetHandle(r.FhIn), !.fhOut = GetHandle(r.FhOut),
                       !.defers = LocksOf(GetHandle(r.FhIn), GetHandle(r.FhOut)),
                       !.acquired = LocksOf(GetHandle(r.FhIn), GetHandle(r.FhOut))]

InitOverlap ==
    \E r \in OverlapRequests :
        /\ thread = [i \in Threads |-> IF i = 1 THEN AtValidate(r) ELSE InitThread]
        /\ handle = [h \in Handles |->
                        IF h \in {GetHandle(r.FhIn), GetHandle(r.FhOut)}
                        THEN [InitHandle(h) EXCEPT !.lock = 1, !.entryLock = 1]
                        ELSE InitHandle(h)]
        /\ entries = [e \in Entries |-> InitEntry(e)]
        /\ lockOrder = [h \in Handles |->
                           IF h = GetHandle(r.FhOut) THEN <<1>> ELSE << >>]

\* lines 63-74 and the return of line 73
NextOverlap == Validate(1) \/ RunDeferred(1)

SpecOverlap == InitOverlap /\ [][NextOverlap]_vars

\* the call is past the checks of lines 64-74
Validated(i) ==
    /\ thread[i].fhIn # NoHandle
    /\ Regular(thread[i].fhIn) /\ Regular(thread[i].fhOut)
    /\ thread[i].pc \in {"read", "write", "size", "unwind", "done"}

\* C18: for every OffIn, OffOut and Len of the unsigned word range, Len = 0 and
\* wrapping sums included, the overlap test of lines 69-72 refuses a request on
\* one inode exactly when the closed intervals [OffIn, OffIn+Len-1] and
\* [OffOut, OffOut+Len-1] intersect (never when Len = 0).
C18_OverlapExact ==
    \A i \in Threads :
        (Validated(i) /\ inode(thread[i].fhIn) = inode(thread[i].fhOut)) =>
            (thread[i].code = "EINVAL" <=> Intersect(thread[i].req))

\* the entries whose fields the next step of a thread reads: both directory
\* flags at line 64, the target's size and content at lines 108-110
EntriesRead(i) ==
    LET t == thread[i]
    IN CASE t.pc = "validate" -> {entry(t.fhIn), entry(t.fhOut)}
         [] t.pc \in {"write", "size"} -> {entry(t.fhOut)}
         [] OTHER -> {}

\* C19: a thread about to read a field of an entry has that entry, and every
\* call, one whose source handle has no entry included, ends in OK or in one of
\* the defined error kinds, never in a crash.
C19_EntryPresent ==
    \A i \in Threads :
        /\ NoEntry \notin EntriesRead(i)
        /\ thread[i].pc # "crashed"
        /\ thread[i].code \in Errors \cup {"OK", "NONE"}

====
